---- MODULE Spec2Model ----
(***************************************************************************)
(* Kalispell showtimes: the schedule derivation engine of                  *)
(* kalispell_showtimes.py (year inference, page fetch, schedule            *)
(* aggregation, window filter and sort, TTL cache and the JSON query).     *)
(*                                                                         *)
(* Conventions.  A date is a tuple <<year, month, day>>; date arithmetic   *)
(* goes through toordinal, the proleptic Gregorian day number, as          *)
(* datetime.date does.  A string whose characters matter (a title, an ISO  *)
(* date) is a sequence of character codes.                                 *)
(***************************************************************************)
EXTENDS Integers, Sequences, FiniteSets, TLC

VARIABLES
    today,        \* date.today(): the reference date of a parse / a schedule
    month,        \* _guess_year: argument month
    day_num,      \* _guess_year: argument day_num
    year,         \* _guess_year: the value returned (None before the call)
    html,         \* parse_tribute_schedule: the page being parsed
    hpos,         \* parse_tribute_schedule: position of "for h2 in headers"
    movie_spans,  \* parse_tribute_schedule: norm -> display_title, dates, in insertion order
    days_ahead,   \* build_schedule: argument days_ahead
    spans,        \* build_schedule: argument spans
    result,       \* build_schedule: the list returned (None before the call)
    fetch,        \* fetch_tribute_html: attempt, last_err, last_status, last_url, returned tuple
    responses,    \* what the successive session.get calls of one fetch gave
    cache,        \* _cache
    clock,        \* the wall clock now_local() reads, in seconds
    frame,        \* per request thread: where api_showtimes is, its locals, and (seen)
                  \* what _cache and stored held when get_cached_spans was entered
    stored,       \* the spans and timestamp the last successful fetch stored (None: none yet)
    debug_resp,   \* the last payload of /api/debug_raw (None: none yet)
    cachedMovies, \* page script: the movies of the last /api/showtimes answer
    hiddenSet,    \* page script: the normalized titles the viewer has hidden
    sortMode,     \* page script: settings.sortMode
    jsNow,        \* the browser's new Date(): its local date and its time zone
    grids         \* the cards in nowGrid, soonGrid and laterGrid

yearVars == <<month, day_num, year>>
parseVars == <<html, hpos, movie_spans>>
schedVars == <<days_ahead, spans, result>>
fetchVars == <<fetch, responses>>
cacheVars == <<cache, clock, frame, stored, debug_resp>>
viewVars == <<cachedMovies, hiddenSet, sortMode, jsNow, grids>>
vars == <<today, yearVars, parseVars, schedVars, fetchVars, cacheVars, viewVars>>

\* Optional values: None, or Some(x) with the value x = Val(o)
None == <<>>
Some(x) == <<x>>
Val(o) == o[1]

(***************************************************************************)
(* datetime.date                                                           *)
(***************************************************************************)
IsLeap(y) == (y % 4 = 0 /\ y % 100 # 0) \/ y % 400 = 0

DaysInMonth(y, m) ==
    IF m = 2 THEN (IF IsLeap(y) THEN 29 ELSE 28)
    ELSE IF m \in {4, 6, 9, 11} THEN 30 ELSE 31

\* date(y, m, d) raises ValueError exactly when this is FALSE
ValidDate(y, m, d) == m \in 1..12 /\ d >= 1 /\ d <= DaysInMonth(y, m)

DaysBeforeYear(y) ==
    (y - 1) * 365 + ((y - 1) \div 4) - ((y - 1) \div 100) + ((y - 1) \div 400)

RECURSIVE DaysBeforeMonth(_, _)
DaysBeforeMonth(y, m) ==
    IF m <= 1 THEN 0 ELSE DaysBeforeMonth(y, m - 1) + DaysInMonth(y, m - 1)

toordinal(d) == DaysBeforeYear(d[1]) + DaysBeforeMonth(d[1], d[2]) + d[3]

\* (a - b).days
DaysBetween(a, b) == toordinal(a) - toordinal(b)

Abs(n) == IF n < 0 THEN -n ELSE n

(***************************************************************************)
(* _guess_year                                                             *)
(***************************************************************************)
WINDOW_PAST == 60
WINDOW_AHEAD == 300

\* the candidate dates, in the order the loop appends them
Candidates(ref, m, dn) ==
    LET ys == <<ref[1] - 1, ref[1], ref[1] + 1>>
        ok(y) == ValidDate(y, m, dn)
        kept == SelectSeq(ys, ok)
    IN  [i \in 1..Len(kept) |-> <<kept[i], m, dn>>]

\* score without the window tier: closeness alone decides
score_closest(ref, d) == <<0, Abs(DaysBetween(d, ref))>>

score(ref, d) ==
    LET delta == DaysBetween(d, ref)
        in_window == IF -WINDOW_PAST <= delta /\ delta <= WINDOW_AHEAD THEN 0 ELSE 1
    IN  <<in_window, Abs(delta)>>

\* tuple comparison of two scores
ScoreLess(a, b) == a[1] < b[1] \/ (a[1] = b[1] /\ a[2] < b[2])

\* min(candidates, key=score): the first candidate of the smallest key
RECURSIVE MinByScore(_, _, _, _)
MinByScore(ref, cs, i, best) ==
    IF i > Len(cs) THEN best
    ELSE MinByScore(ref, cs, i + 1,
                    IF ScoreLess(score(ref, cs[i]), score(ref, best)) THEN cs[i] ELSE best)

_guess_year(ref, m, dn) ==
    LET cs == Candidates(ref, m, dn)
    IN  IF Len(cs) = 0 THEN ref[1]
        ELSE MinByScore(ref, cs, 2, cs[1])[1]

(***************************************************************************)
(* Strings as sequences of character codes; normalize_title                *)
(***************************************************************************)
IsUpper(c) == c >= 65 /\ c <= 90
IsLowerOrDigit(c) == (c >= 97 /\ c <= 122) \/ (c >= 48 /\ c <= 57)

\* str.lower() on ASCII
lower(t) == [i \in 1..Len(t) |-> IF IsUpper(t[i]) THEN t[i] + 32 ELSE t[i]]

\* re.sub(r"[^a-z0-9]+", "", t.lower())
normalize_title(title) == SelectSeq(lower(title), IsLowerOrDigit)

\* a < b for Python strings: code point order, a proper prefix first
RECURSIVE StrLess(_, _)
StrLess(a, b) ==
    IF Len(b) = 0 THEN FALSE
    ELSE IF Len(a) = 0 THEN TRUE
    ELSE IF a[1] # b[1] THEN a[1] < b[1]
    ELSE StrLess(Tail(a), Tail(b))

\* the titles of the pages modelled
T_Ab == <<65, 98>>                                          \* "Ab"
T_a_b == <<97, 45, 98>>                                     \* "a-b"
T_aB == <<97, 66>>                                          \* "aB"
T_Cd == <<67, 100>>                                         \* "Cd"
T_e1 == <<101, 49>>                                         \* "e1"
T_C == <<67>>                                               \* "C"
T_dashes == <<45, 45>>                                      \* "--"
T_Showtimes == <<83, 104, 111, 119, 116, 105, 109, 101, 115>>  \* "Showtimes"

\* the headings that are page furniture, not movies
JunkHeadings ==
    { <<114, 101, 103, 117, 108, 97, 114, 32, 115, 104, 111, 119, 116, 105, 109, 101, 115>>,
      <<115, 104, 111, 119, 116, 105, 109, 101, 115>>,
      <<99, 111, 109, 105, 110, 103, 32, 115, 111, 111, 110>> }

(***************************************************************************)
(* The page: the sibling elements of the listing, in document order.       *)
(*   media   : <div class="media"> holding one <h2> (cls: it carries the   *)
(*             class media-heading)                                        *)
(*   h2      : an <h2> outside any div.media                               *)
(*   hr      : any other element                                           *)
(*   ticket  : <div class="ticketicons"> holding the <b> fragments b       *)
(* A <b> fragment is its text: shape says whether DATE_LABEL_RE matches,   *)
(* mon and day are the groups 2 and 3 of the match.                        *)
(***************************************************************************)
Media(cls, title) == [tag |-> "media", cls |-> cls, title |-> title, b |-> <<>>]
H2(cls, title) == [tag |-> "h2", cls |-> cls, title |-> title, b |-> <<>>]
Hr == [tag |-> "hr", cls |-> FALSE, title |-> <<>>, b |-> <<>>]
Ticket(frags) == [tag |-> "ticket", cls |-> FALSE, title |-> <<>>, b |-> frags]

Label(mon, day) == [shape |-> TRUE, mon |-> mon, day |-> day]
NoLabel == [shape |-> FALSE, mon |-> "", day |-> 0]

MONTHS ==
    [Jan |-> 1, Feb |-> 2, Mar |-> 3, Apr |-> 4, May |-> 5, Jun |-> 6,
     Jul |-> 7, Aug |-> 8, Sep |-> 9, Oct |-> 10, Nov |-> 11, Dec |-> 12]

IsHeading(n) == n.tag \in {"media", "h2"}

\* the positions, in document order, of the <h2> elements: those carrying
\* the class media-heading when classed, all of them otherwise
Positions(doc, classed) ==
    LET RECURSIVE Walk(_)
        Walk(i) == IF i > Len(doc) THEN <<>>
                   ELSE IF IsHeading(doc[i]) /\ (classed => doc[i].cls)
                        THEN <<i>> \o Walk(i + 1)
                        ELSE Walk(i + 1)
    IN  Walk(1)

\* the title headers: soup.select("h2.media-heading"), and every <h2> when
\* there is none
Headers(doc) ==
    LET selected == Positions(doc, TRUE)
    IN  IF Len(selected) > 0 THEN selected ELSE Positions(doc, FALSE)

SIBLING_HOPS == 6

\* from media_div, the first div.ticketicons within SIBLING_HOPS next siblings
RECURSIVE SiblingSearch(_, _, _)
SiblingSearch(doc, i, hop) ==
    IF hop > SIBLING_HOPS \/ i + hop > Len(doc) THEN None
    ELSE IF doc[i + hop].tag = "ticket" THEN Some(i + hop)
    ELSE SiblingSearch(doc, i, hop + 1)

\* h2.find_all_next(): stop at the next h2.media-heading, take the first
\* div.ticketicons
RECURSIVE ForwardScan(_, _)
ForwardScan(doc, j) ==
    IF j > Len(doc) THEN None
    ELSE IF IsHeading(doc[j]) /\ doc[j].cls THEN None
    ELSE IF doc[j].tag = "ticket" THEN Some(j)
    ELSE ForwardScan(doc, j + 1)

\* ticket_div of the header at position i (None: no showtimes block found)
FindTicket(doc, i) ==
    LET bySibling == IF doc[i].tag = "media" THEN SiblingSearch(doc, i, 1) ELSE None
    IN  IF bySibling # None THEN bySibling ELSE ForwardScan(doc, i + 1)

\* an unknown month read as January
LabelDate_january(ref, frag) ==
    IF ~frag.shape THEN None
    ELSE LET m == IF frag.mon \in DOMAIN MONTHS THEN MONTHS[frag.mon] ELSE 1
             y == _guess_year(ref, m, frag.day)
         IN  IF ValidDate(y, m, frag.day) THEN Some(<<y, m, frag.day>>) ELSE None

\* the date one <b> fragment adds (None: the fragment is skipped)
LabelDate(ref, frag) ==
    IF ~frag.shape THEN None
    ELSE IF frag.mon \notin DOMAIN MONTHS THEN None
    ELSE LET m == MONTHS[frag.mon]
             y == _guess_year(ref, m, frag.day)
         IN  IF ValidDate(y, m, frag.day) THEN Some(<<y, m, frag.day>>) ELSE None

\* the dates the loop over ticket_div.find_all("b") adds
BlockDates(ref, frags) ==
    {Val(LabelDate(ref, frags[k])) : k \in {x \in 1..Len(frags) : LabelDate(ref, frags[x]) # None}}

\* a title the loop skips before it looks for a showtimes block
SkippedTitle(title) ==
    \/ Len(title) < 2
    \/ lower(title) \in JunkHeadings
    \/ Len(normalize_title(title)) = 0

\* index of the span of key norm in the mapping, 0 when absent
SpanIndex(mapping, norm) ==
    IF \E k \in 1..Len(mapping) : mapping[k].norm = norm
    THEN CHOOSE k \in 1..Len(mapping) : mapping[k].norm = norm
    ELSE 0

\* the comparison of the title lengths reversed
KeepTitle_shorter(shown, title) == IF Len(title) < Len(shown) THEN title ELSE shown

\* info["display_title"] after an occurrence titled title
KeepTitle(shown, title) == IF Len(title) > Len(shown) THEN title ELSE shown

\* movie_spans.setdefault(norm, ...), the display_title update and the dates added
MergeSpan(mapping, norm, title, dates) ==
    LET k == SpanIndex(mapping, norm)
    IN  IF k = 0
        THEN Append(mapping, [norm |-> norm, display_title |-> title, dates |-> dates])
        ELSE [mapping EXCEPT ![k] = [norm |-> norm,
                                     display_title |-> KeepTitle(@.display_title, title),
                                     dates |-> @.dates \cup dates]]

\* one iteration of "for h2 in headers" on the header at position i
ParseHeader(doc, ref, mapping, i) ==
    LET title == doc[i].title
        ticket_div == FindTicket(doc, i)
    IN  IF SkippedTitle(title) THEN mapping
        ELSE IF ticket_div = None THEN mapping
        ELSE MergeSpan(mapping, normalize_title(title), title,
                       BlockDates(ref, doc[Val(ticket_div)].b))

\* the mapping after the first n headers; parse_tribute_schedule is all of them
RECURSIVE ParsePrefix(_, _, _)
ParsePrefix(doc, ref, n) ==
    IF n = 0 THEN <<>>
    ELSE ParseHeader(doc, ref, ParsePrefix(doc, ref, n - 1), Headers(doc)[n])

parse_tribute_schedule(doc, ref) == ParsePrefix(doc, ref, Len(Headers(doc)))

(***************************************************************************)
(* build_schedule                                                          *)
(***************************************************************************)
LOOKBACK_DAYS == 14

\* date.isoformat(): "YYYY-MM-DD"
isoformat(d) ==
    << 48 + (d[1] \div 1000), 48 + ((d[1] \div 100) % 10), 48 + ((d[1] \div 10) % 10),
       48 + (d[1] % 10), 45, 48 + (d[2] \div 10), 48 + (d[2] % 10), 45,
       48 + (d[3] \div 10), 48 + (d[3] % 10) >>

Untitled == <<85, 110, 116, 105, 116, 108, 101, 100>>

\* the horizon taken as exclusive
InWindow_exclusive(ref, ahead, d) ==
    /\ toordinal(ref) - LOOKBACK_DAYS <= toordinal(d)
    /\ toordinal(d) < toordinal(ref) + ahead

\* lower <= d <= horizon
InWindow(ref, ahead, d) ==
    /\ toordinal(ref) - LOOKBACK_DAYS <= toordinal(d)
    /\ toordinal(d) <= toordinal(ref) + ahead

\* sorted(...)[0] and sorted(...)[-1] of a non-empty set of dates
FirstOf(ds) == CHOOSE d \in ds : \A e \in ds : toordinal(d) <= toordinal(e)
LastOf(ds) == CHOOSE d \in ds : \A e \in ds : toordinal(e) <= toordinal(d)

\* the entry appended for one span whose filtered dates are not empty
ScheduleEntry(ref, info, filtered) ==
    [ title |-> IF Len(info.display_title) > 0 THEN info.display_title ELSE Untitled,
      first_date |-> isoformat(FirstOf(filtered)),
      last_date |-> isoformat(LastOf(filtered)),
      days_until_start |-> DaysBetween(FirstOf(filtered), ref),
      run_length_days |-> Cardinality(filtered) ]

\* the sort key with the titles compared by their lower-cased form
KeyLess_caseless(x, y) ==
    \/ x.days_until_start < y.days_until_start
    \/ /\ x.days_until_start = y.days_until_start
       /\ \/ x.run_length_days < y.run_length_days
          \/ /\ x.run_length_days = y.run_length_days
             /\ StrLess(lower(x.title), lower(y.title))

\* the sort key compared as Python compares tuples
KeyLess(x, y) ==
    \/ x.days_until_start < y.days_until_start
    \/ /\ x.days_until_start = y.days_until_start
       /\ \/ x.run_length_days < y.run_length_days
          \/ /\ x.run_length_days = y.run_length_days
             /\ StrLess(x.title, y.title)

\* list.sort(key=...) is stable: an entry goes after every entry that is not
\* greater than it
RECURSIVE InsertByKey(_, _)
InsertByKey(sorted, e) ==
    IF Len(sorted) = 0 THEN <<e>>
    ELSE IF KeyLess(e, sorted[1]) THEN <<e>> \o sorted
    ELSE <<sorted[1]>> \o InsertByKey(Tail(sorted), e)

RECURSIVE SortByKey(_)
SortByKey(list) ==
    IF Len(list) = 0 THEN <<>>
    ELSE InsertByKey(SortByKey(SubSeq(list, 1, Len(list) - 1)), list[Len(list)])

\* the entries in the order of spans.items(), before the sort
RECURSIVE Unsorted(_, _, _, _)
Unsorted(ahead, mapping, ref, k) ==
    IF k > Len(mapping) THEN <<>>
    ELSE LET info == mapping[k]
             filtered == {d \in info.dates : InWindow(ref, ahead, d)}
         IN  IF info.dates = {} \/ filtered = {}
             THEN Unsorted(ahead, mapping, ref, k + 1)
             ELSE <<ScheduleEntry(ref, info, filtered)>> \o Unsorted(ahead, mapping, ref, k + 1)

build_schedule(ahead, mapping, ref) == SortByKey(Unsorted(ahead, mapping, ref, 1))

(***************************************************************************)
(* fetch_tribute_html                                                      *)
(* What one session.get gives: a RequestException, or a response with its  *)
(* status_code, final url and text (a text is its length and the page it   *)
(* holds).  An error string is <<text, number formatted into it>>.         *)
(***************************************************************************)
FETCH_ATTEMPTS == 3
MIN_HTML_LEN == 800
HTTP_OK == 200

Raised(name) == [kind |-> "exc", exc |-> name, status_code |-> 0, url |-> "", text |-> None]
Response(code, url, text) ==
    [kind |-> "resp", exc |-> "", status_code |-> code, url |-> url, text |-> Some(text)]

ErrHTTP(code) == <<"HTTP", code>>
ErrTooShort(n) == <<"HTML too short (len=)", n>>
ErrRaised(name) == <<name, 0>>
ErrUnknown == <<"Unknown fetch failure", 0>>
ErrFetchFailed == <<"Fetch failed", 0>>
ErrNoSpans == <<"No spans parsed", 0>>

\* the locals of fetch_tribute_html before the first attempt
FetchStart ==
    [attempt |-> 0, last_err |-> None, last_status |-> None, last_url |-> None, ret |-> None]

FetchReturn(text, err, status, final_url) ==
    [html |-> text, error |-> err, status_code |-> status, final_url |-> final_url]

\* the length threshold taken as exclusive
TooShort_inclusive(text) == text.len <= MIN_HTML_LEN

\* len(text) < 800
TooShort(text) == text.len < MIN_HTML_LEN

\* last_err kept from the first attempt that failed
LastErr_first(prev, e) == IF prev = None THEN Some(e) ELSE prev

\* last_err = <the error of this attempt>
LastErr(prev, e) == Some(e)

\* one pass of "for attempt in range(1, 4)" on what session.get gave, and the
\* return after the loop when it was the last pass
FetchStep(f, o) ==
    LET seen == IF o.kind = "exc"
                THEN [f EXCEPT !.attempt = @ + 1, !.last_err = LastErr(@, ErrRaised(o.exc))]
                ELSE [f EXCEPT !.attempt = @ + 1,
                               !.last_status = Some(o.status_code),
                               !.last_url = Some(o.url)]
        failed == IF o.kind = "exc" THEN seen
                  ELSE IF o.status_code # HTTP_OK
                       THEN [seen EXCEPT !.last_err = LastErr(@, ErrHTTP(o.status_code))]
                       ELSE [seen EXCEPT !.last_err = LastErr(@, ErrTooShort(Val(o.text).len))]
        good == o.kind = "resp" /\ o.status_code = HTTP_OK /\ ~TooShort(Val(o.text))
    IN  IF good
        THEN [seen EXCEPT !.ret = Some(FetchReturn(o.text, None, Some(o.status_code), Some(o.url)))]
        ELSE IF failed.attempt >= FETCH_ATTEMPTS
             THEN [failed EXCEPT !.ret =
                      Some(FetchReturn(None,
                                       IF failed.last_err = None THEN Some(ErrUnknown)
                                       ELSE failed.last_err,
                                       failed.last_status, failed.last_url))]
             ELSE failed

\* the whole call, on what the successive session.get calls give
RECURSIVE FetchLoop(_, _)
FetchLoop(f, os) ==
    IF f.ret # None \/ Len(os) = 0 THEN f
    ELSE FetchLoop(FetchStep(f, os[1]), Tail(os))

fetch_tribute_html(os) == Val(FetchLoop(FetchStart, os).ret)

(***************************************************************************)
(* _cache, get_cached_spans and the handlers api_showtimes, api_debug_raw. *)
(* A request thread runs api_showtimes line by line: pc names the source   *)
(* line it is about to execute.                                            *)
(***************************************************************************)
CACHE_TTL_SECONDS == 180
DEFAULT_DAYS_AHEAD == 60
MIN_DAYS == 1
MAX_DAYS == 365

EmptyCache ==
    [fetched_at |-> None, spans |-> None, fetch_error |-> None,
     fetch_status |-> None, fetch_url |-> None, html_len |-> None]

Threads == {1, 2}

Frame0 ==
    [pc |-> "idle", days |-> DEFAULT_DAYS_AHEAD, now |-> None, fetched_at |-> None,
     got |-> None, out |-> None, resp |-> None, seen |-> None, args |-> None]

\* request.args.get("days"): absent, a text int() rejects, or an integer
NoArg == [kind |-> "missing", n |-> 0]
TextArg == [kind |-> "text", n |-> 0]
IntArg(n) == [kind |-> "int", n |-> n]

Min(a, b) == IF a < b THEN a ELSE b
Max(a, b) == IF a > b THEN a ELSE b

\* days with the upper limit alone
ClampDays_noFloor(arg) ==
    LET days == IF arg.kind = "int" THEN arg.n ELSE DEFAULT_DAYS_AHEAD
    IN  Min(days, MAX_DAYS)

\* days as api_showtimes uses it
ClampDays(arg) ==
    LET days == IF arg.kind = "int" THEN arg.n ELSE DEFAULT_DAYS_AHEAD
    IN  Max(MIN_DAYS, Min(days, MAX_DAYS))

\* the test of the cache-hit path with the TTL taken as inclusive
CacheFresh_inclusive(c, now, fetched_at) ==
    /\ fetched_at # None
    /\ Val(now) - Val(fetched_at) <= CACHE_TTL_SECONDS
    /\ c.spans # None

\* the test of the cache-hit path
CacheFresh(c, now, fetched_at) ==
    /\ fetched_at # None
    /\ Val(now) - Val(fetched_at) < CACHE_TTL_SECONDS
    /\ c.spans # None

\* the error path taken on an error alone
ErrorPath_errOnly(out) == out.err # None

\* "if err or not spans" of api_showtimes
ErrorPath(out) == out.err # None \/ out.spans = None \/ Len(Val(out.spans)) = 0

\* the JSON payload and status of api_showtimes
ShowtimesResponse(days, out, c, ref) ==
    IF ErrorPath(out)
    THEN [code |-> 503, days_ahead |-> days, movies |-> <<>>,
          error |-> IF out.err # None THEN out.err ELSE Some(ErrNoSpans),
          debug |-> Some([last_status |-> c.fetch_status, last_url |-> c.fetch_url,
                          last_html_len |-> c.html_len])]
    ELSE [code |-> 200, days_ahead |-> days,
          movies |-> build_schedule(days, Val(out.spans), ref),
          error |-> None, debug |-> None]

\* the JSON payload and status of api_debug_raw
DebugResponse(r) ==
    IF r.html = None \/ Val(r.html).len = 0
    THEN [code |-> 500, ok |-> FALSE, error |-> r.error, status |-> r.status_code,
          final_url |-> r.final_url, len |-> None,
          has_media_heading |-> FALSE, has_ticketicons |-> FALSE]
    ELSE [code |-> 200, ok |-> TRUE, error |-> None, status |-> r.status_code,
          final_url |-> r.final_url, len |-> Some(Val(r.html).len),
          has_media_heading |->
              \E i \in 1..Len(Val(r.html).page) :
                  IsHeading(Val(r.html).page[i]) /\ Val(r.html).page[i].cls,
          has_ticketicons |->
              \E i \in 1..Len(Val(r.html).page) : Val(r.html).page[i].tag = "ticket"]

Goto(t, line) == [frame EXCEPT ![t].pc = line]

\* the state of the other parts
elsewhere == <<today, yearVars, parseVars, schedVars, fetchVars, viewVars>>

\* api_showtimes is entered: days is read and clamped
ApiStart(t, args) ==
    /\ frame[t].pc \in {"idle", "done"}
    /\ \E a \in args : frame' = [frame EXCEPT ![t] = [Frame0 EXCEPT !.pc = "l292", !.args = Some(a),
                                                                  !.days = ClampDays(a)]]
    /\ UNCHANGED <<cache, clock, stored, debug_resp, elsewhere>>

\* get_cached_spans: now = now_local(); fetched_at = _cache["fetched_at"]
GcsNow(t) ==
    /\ frame[t].pc = "l292"
    /\ frame' = [frame EXCEPT ![t].pc = "l295", ![t].now = Some(clock),
                              ![t].fetched_at = cache.fetched_at,
                              ![t].seen = Some([spans |-> cache.spans,
                                                fetch_error |-> cache.fetch_error,
                                                stored |-> stored])]
    /\ UNCHANGED <<cache, clock, stored, debug_resp, elsewhere>>

\* the if of the cache-hit path
GcsCheck(t) ==
    /\ frame[t].pc = "l295"
    /\ frame' = Goto(t, IF CacheFresh(cache, frame[t].now, frame[t].fetched_at)
                        THEN "l296" ELSE "l298")
    /\ UNCHANGED <<cache, clock, stored, debug_resp, elsewhere>>

\* return _cache["spans"], None
GcsHit(t) ==
    /\ frame[t].pc = "l296"
    /\ frame' = [frame EXCEPT ![t].pc = "l359",
                              ![t].out = Some([spans |-> cache.spans, err |-> None])]
    /\ UNCHANGED <<cache, clock, stored, debug_resp, elsewhere>>

\* html, err, status, final_url = fetch_tribute_html()
GcsFetch(t, results) ==
    /\ frame[t].pc = "l298"
    /\ \E r \in results : frame' = [frame EXCEPT ![t].pc = "l299", ![t].got = Some(r)]
    /\ UNCHANGED <<cache, clock, stored, debug_resp, elsewhere>>

StoreFetchedAt(t) ==
    /\ frame[t].pc = "l299"
    /\ cache' = [cache EXCEPT !.fetched_at = frame[t].now]
    /\ frame' = Goto(t, "l300")
    /\ UNCHANGED <<clock, stored, debug_resp, elsewhere>>

StoreError(t) ==
    /\ frame[t].pc = "l300"
    /\ cache' = [cache EXCEPT !.fetch_error = Val(frame[t].got).error]
    /\ frame' = Goto(t, "l301")
    /\ UNCHANGED <<clock, stored, debug_resp, elsewhere>>

StoreStatus(t) ==
    /\ frame[t].pc = "l301"
    /\ cache' = [cache EXCEPT !.fetch_status = Val(frame[t].got).status_code]
    /\ frame' = Goto(t, "l302")
    /\ UNCHANGED <<clock, stored, debug_resp, elsewhere>>

StoreUrl(t) ==
    /\ frame[t].pc = "l302"
    /\ cache' = [cache EXCEPT !.fetch_url = Val(frame[t].got).final_url]
    /\ frame' = Goto(t, "l303")
    /\ UNCHANGED <<clock, stored, debug_resp, elsewhere>>

\* "if html" and "if not html": html is None or the empty string
NoHtml(r) == r.html = None \/ Val(r.html).len = 0

\* the length of no html stored as 0
HtmlLen_zero(r) == IF NoHtml(r) THEN Some(0) ELSE Some(Val(r.html).len)

\* len(html) if html else None
HtmlLen(r) == IF NoHtml(r) THEN None ELSE Some(Val(r.html).len)

\* _cache["html_len"] = len(html) if html else None, and the test of "if not html"
StoreLen(t) ==
    /\ frame[t].pc = "l303"
    /\ cache' = [cache EXCEPT !.html_len = HtmlLen(Val(frame[t].got))]
    /\ frame' = Goto(t, IF NoHtml(Val(frame[t].got)) THEN "l306" ELSE "l309")
    /\ UNCHANGED <<clock, stored, debug_resp, elsewhere>>

\* the failure branch keeping the spans it finds
SpansAfterFailure_keep(c) == c.spans

\* what the failure branch leaves in _cache["spans"]
SpansAfterFailure(c) == None

\* _cache["spans"] = None; return None, (err or "Fetch failed")
StoreNoSpans(t) ==
    /\ frame[t].pc = "l306"
    /\ cache' = [cache EXCEPT !.spans = SpansAfterFailure(cache)]
    /\ frame' = [frame EXCEPT ![t].pc = "l359",
                              ![t].out = Some([spans |-> None,
                                               err |-> IF Val(frame[t].got).error = None
                                                       THEN Some(ErrFetchFailed)
                                                       ELSE Val(frame[t].got).error])]
    /\ UNCHANGED <<clock, stored, debug_resp, elsewhere>>

\* a mapping stored only when it holds a title
SpansToCache_nonempty(c, parsed) == IF Len(parsed) = 0 THEN c.spans ELSE Some(parsed)

\* what the success branch leaves in _cache["spans"]
SpansToCache(c, parsed) == Some(parsed)

\* spans = parse_tribute_schedule(html); _cache["spans"] = spans; return spans, None
StoreSpans(t) ==
    /\ frame[t].pc = "l309"
    /\ LET parsed == parse_tribute_schedule(Val(Val(frame[t].got).html).page, today)
       IN  /\ cache' = [cache EXCEPT !.spans = SpansToCache(cache, parsed)]
           /\ frame' = [frame EXCEPT ![t].pc = "l359",
                                     ![t].out = Some([spans |-> Some(parsed), err |-> None])]
           /\ stored' = Some([spans |-> parsed, at |-> Val(frame[t].now)])
    /\ UNCHANGED <<clock, debug_resp, elsewhere>>

\* the rest of api_showtimes: the error payload or the schedule
ApiRespond(t) ==
    /\ frame[t].pc = "l359"
    /\ frame' = [frame EXCEPT ![t] =
                    [Frame0 EXCEPT !.pc = "done",
                                   !.resp = Some(ShowtimesResponse(frame[t].days, Val(frame[t].out),
                                                                   cache, today))]]
    /\ UNCHANGED <<cache, clock, stored, debug_resp, elsewhere>>

\* api_debug_raw: a fetch of its own, which never touches _cache
ApiDebugRaw(results) ==
    /\ \E r \in results : debug_resp' = Some(DebugResponse(r))
    /\ UNCHANGED <<cache, clock, frame, stored, elsewhere>>

\* time passes
Tick(times) ==
    /\ \E c \in times : c > clock /\ clock' = c
    /\ UNCHANGED <<cache, frame, stored, debug_resp, elsewhere>>

(***************************************************************************)
(* The page script: bucketTag, daysRemaining, getUrgency, createCard,      *)
(* sortMovies and renderMovies.  A time zone is the pair of dates between  *)
(* which its clocks run one hour ahead (None: they never do); a local      *)
(* date-time is a count of hours since a fixed instant.                    *)
(***************************************************************************)
BUCKET_NOW_MAX == 0
BUCKET_SOON_MAX == 14
URGENT_RED_DAYS == 1
URGENT_YELLOW_DAYS == 5
URGENT_YELLOW_RUN == 3
LIMITED_RUN_MAX == 7
HOURS_PER_DAY == 24
NOON == 12

\* normalizeTitleJS
normalizeTitleJS(title) == normalize_title(title)

\* bucketTag
bucketTag(daysUntil) ==
    IF daysUntil <= BUCKET_NOW_MAX THEN "NOW"
    ELSE IF daysUntil <= BUCKET_SOON_MAX THEN "SOON"
    ELSE "LATER"

\* the date an ISO string "YYYY-MM-DD" names
ParseIso(iso) ==
    << (iso[1] - 48) * 1000 + (iso[2] - 48) * 100 + (iso[3] - 48) * 10 + (iso[4] - 48),
       (iso[6] - 48) * 10 + (iso[7] - 48),
       (iso[9] - 48) * 10 + (iso[10] - 48) >>

\* hours the zone's clocks are ahead of its standard time on date d
ZoneAhead(zone, d) ==
    IF zone = None THEN 0
    ELSE IF toordinal(Val(zone).from) <= toordinal(d) /\ toordinal(d) < toordinal(Val(zone).until)
         THEN 1 ELSE 0

\* the instant of 12:00:00 local time on date d, in hours
LocalNoon(zone, d) == toordinal(d) * HOURS_PER_DAY + NOON - ZoneAhead(zone, d)

\* Math.floor(diffMs / (1000 * 60 * 60 * 24))
FloorDays(hours) == hours \div HOURS_PER_DAY

\* daysRemaining
daysRemaining(movie, at) ==
    FloorDays(LocalNoon(at.zone, ParseIso(movie.last_date)) - LocalNoon(at.zone, at.date))

\* getUrgency
getUrgency(movie, at) ==
    LET remaining == daysRemaining(movie, at)
        run == movie.run_length_days
    IN  IF remaining <= URGENT_RED_DAYS THEN "red"
        ELSE IF run <= URGENT_YELLOW_RUN \/ remaining <= URGENT_YELLOW_DAYS THEN "yellow"
        ELSE "none"

\* specialRunLabel
specialRunLabel(movie) ==
    LET run == movie.run_length_days
    IN  IF run = 1 THEN "ONE NIGHT ONLY"
        ELSE IF run = 2 THEN "2-DAY RUN"
        ELSE IF run = 3 THEN "3-DAY RUN"
        ELSE IF run <= LIMITED_RUN_MAX THEN "LIMITED RUN"
        ELSE ""

\* createCard: what the card shows of the movie
createCard(movie, at) ==
    LET urgency == getUrgency(movie, at)
    IN  [title |-> movie.title,
         tag |-> bucketTag(movie.days_until_start),
         classes |-> IF urgency = "yellow" THEN {"card", "card-urgent-yellow"}
                     ELSE IF urgency = "red" THEN {"card", "card-urgent-red"}
                     ELSE {"card"},
         run_tag |-> specialRunLabel(movie),
         urgency_label |-> IF urgency = "yellow" THEN "Leaves soon"
                           ELSE IF urgency = "red" THEN "Final chance"
                           ELSE "",
         movie |-> movie]

\* a.title.localeCompare(b.title) < 0: letters compare without case first,
\* then a lower-case letter goes before its capital
LocaleLess(a, b) ==
    IF lower(a) # lower(b) THEN StrLess(lower(a), lower(b)) ELSE StrLess(b, a)

\* the comparators of sortMovies: a goes before b
MovieLess(mode, a, b) ==
    IF mode = "run"
    THEN IF a.run_length_days # b.run_length_days THEN a.run_length_days < b.run_length_days
         ELSE IF a.days_until_start # b.days_until_start THEN a.days_until_start < b.days_until_start
         ELSE LocaleLess(a.title, b.title)
    ELSE IF a.days_until_start # b.days_until_start THEN a.days_until_start < b.days_until_start
         ELSE IF a.run_length_days # b.run_length_days THEN a.run_length_days < b.run_length_days
         ELSE LocaleLess(a.title, b.title)

\* Array.prototype.sort is stable: an element goes after those not after it
RECURSIVE JsInsert(_, _, _)
JsInsert(mode, sorted, e) ==
    IF Len(sorted) = 0 THEN <<e>>
    ELSE IF MovieLess(mode, e, Head(sorted)) THEN <<e>> \o sorted
    ELSE <<Head(sorted)>> \o JsInsert(mode, Tail(sorted), e)

RECURSIVE sortMovies(_, _)
sortMovies(list, mode) ==
    IF Len(list) = 0 THEN <<>>
    ELSE JsInsert(mode, sortMovies(SubSeq(list, 1, Len(list) - 1), mode), list[Len(list)])

EmptyGrids == [now |-> <<>>, soon |-> <<>>, later |-> <<>>]

\* the section renderMovies pushes the movie to
Section(movie) ==
    IF movie.days_until_start <= BUCKET_NOW_MAX THEN "now"
    ELSE IF movie.days_until_start <= BUCKET_SOON_MAX THEN "soon"
    ELSE "later"

\* the loop of renderMovies over the first n sorted movies: the movies kept
\* (not hidden, title not rendered before), in order
RECURSIVE Rendered(_, _, _)
Rendered(sorted, hidden, n) ==
    IF n = 0 THEN <<>>
    ELSE LET before == Rendered(sorted, hidden, n - 1)
             key == normalizeTitleJS(sorted[n].title)
         IN  IF key \in hidden THEN before
             ELSE IF \E k \in 1..Len(before) : normalizeTitleJS(before[k].title) = key THEN before
             ELSE Append(before, sorted[n])

\* the cards of one grid
RECURSIVE GridOf(_, _, _)
GridOf(kept, section, at) ==
    IF Len(kept) = 0 THEN <<>>
    ELSE IF Section(Head(kept)) = section
         THEN <<createCard(Head(kept), at)>> \o GridOf(Tail(kept), section, at)
         ELSE GridOf(Tail(kept), section, at)

\* renderMovies
RenderMovies ==
    /\ LET sorted == sortMovies(cachedMovies, sortMode)
           kept == Rendered(sorted, hiddenSet, Len(sorted))
       IN  grids' = [now |-> GridOf(kept, "now", jsNow),
                     soon |-> GridOf(kept, "soon", jsNow),
                     later |-> GridOf(kept, "later", jsNow)]
    /\ UNCHANGED <<cachedMovies, hiddenSet, sortMode, jsNow>>
    /\ UNCHANGED <<today, yearVars, parseVars, schedVars, fetchVars, cacheVars>>

(***************************************************************************)
(* The state after construction of each part, and the reference date of    *)
(* the parts that do not draw it.                                          *)
(***************************************************************************)
Today0 == <<2025, 1, 10>>

IdleYear == month = 1 /\ day_num = 1 /\ year = None
IdleParse == html = <<>> /\ hpos = 1 /\ movie_spans = <<>>
IdleSched == days_ahead = DEFAULT_DAYS_AHEAD /\ spans = <<>> /\ result = None
IdleFetch == fetch = FetchStart /\ responses = <<>>
IdleCache ==
    /\ cache = EmptyCache
    /\ clock = 0
    /\ frame = [t \in Threads |-> Frame0]
    /\ stored = None
    /\ debug_resp = None
IdleView ==
    /\ cachedMovies = <<>>
    /\ hiddenSet = {}
    /\ sortMode = "start"
    /\ jsNow = [date |-> Today0, zone |-> None]
    /\ grids = EmptyGrids

(***************************************************************************)
(* Year inference: the inputs of _guess_year and the call.                 *)
(***************************************************************************)
BaseYear == 2023
YearSpan == 3
MaxDayNum == 32

RefYears == BaseYear..(BaseYear + YearSpan - 1)
RefDays == {1, 5, 20, 29}
RefDates == {d \in RefYears \X (1..12) \X RefDays : ValidDate(d[1], d[2], d[3])}

InitYear ==
    /\ today \in RefDates
    /\ month \in 1..12
    /\ day_num \in 0..MaxDayNum
    /\ year = None
    /\ IdleParse /\ IdleSched /\ IdleFetch /\ IdleCache /\ IdleView

GuessYear ==
    /\ year = None
    /\ year' = Some(_guess_year(today, month, day_num))
    /\ UNCHANGED <<today, month, day_num, parseVars, schedVars, fetchVars, cacheVars, viewVars>>

NextYear == GuessYear

SpecYear == InitYear /\ [][NextYear]_vars

(***************************************************************************)
(* One fetch: fetch_tribute_html against a site that answers each          *)
(* session.get with an exception or a response.                            *)
(***************************************************************************)
TRIBUTE_THEATRE_URL == "tributemovies.com/cinema/10338"
RedirectedUrl == "tributemovies.com/blocked"

\* pages a response may carry: nothing recognisable, one movie, two movies
EmptyPage == <<Hr>>
OneMoviePage == <<Media(TRUE, T_Ab), Hr, Ticket(<<Label("Jan", 17)>>)>>
TwoMoviePage ==
    <<Media(TRUE, T_Cd), Ticket(<<Label("Jan", 11), Label("Jan", 12)>>),
      Media(TRUE, T_a_b), Hr, Ticket(<<Label("Jan", 11)>>)>>
ServedPages == {EmptyPage, OneMoviePage, TwoMoviePage}

Texts ==
    {[len |-> n, page |-> EmptyPage] : n \in {0, MIN_HTML_LEN - 1}}
    \cup {[len |-> n, page |-> p] : n \in {MIN_HTML_LEN}, p \in ServedPages}

Outcomes ==
    {Raised("ConnectionError")}
    \cup {Response(503, u, [len |-> 0, page |-> EmptyPage]) : u \in {TRIBUTE_THEATRE_URL, RedirectedUrl}}
    \cup {Response(HTTP_OK, u, x) : u \in {TRIBUTE_THEATRE_URL, RedirectedUrl}, x \in Texts}

InitFetch ==
    /\ today = Today0
    /\ IdleFetch
    /\ IdleYear /\ IdleParse /\ IdleSched /\ IdleCache /\ IdleView

\* one session.get and the rest of the loop body (and the return)
FetchAttempt ==
    /\ fetch.ret = None
    /\ \E o \in Outcomes :
          /\ fetch' = FetchStep(fetch, o)
          /\ responses' = Append(responses, o)
    /\ UNCHANGED <<today, yearVars, parseVars, schedVars, cacheVars, viewVars>>

NextFetch == FetchAttempt

SpecFetch == InitFetch /\ [][NextFetch]_vars

(***************************************************************************)
(* One parse: parse_tribute_schedule over a page, one title header at a    *)
(* time.                                                                   *)
(***************************************************************************)
MaxNodes == 4

PageNodes ==
    { Media(TRUE, T_Ab), Media(TRUE, T_a_b), Media(TRUE, T_aB), Media(FALSE, T_Cd),
      Media(TRUE, T_C), H2(TRUE, T_Cd), H2(FALSE, T_Showtimes), Hr,
      Ticket(<<Label("Jan", 17)>>),
      Ticket(<<Label("Jan", 18), NoLabel, Label("Jan", 17)>>) }

Pages == UNION {[1..n -> PageNodes] : n \in 0..MaxNodes}

InitParse ==
    /\ today = Today0
    /\ html \in Pages
    /\ hpos = 1
    /\ movie_spans = <<>>
    /\ IdleYear /\ IdleSched /\ IdleFetch /\ IdleCache /\ IdleView

\* one iteration of "for h2 in headers"
ParseTitle ==
    /\ hpos <= Len(Headers(html))
    /\ movie_spans' = ParseHeader(html, today, movie_spans, Headers(html)[hpos])
    /\ hpos' = hpos + 1
    /\ UNCHANGED <<today, html, yearVars, schedVars, fetchVars, cacheVars, viewVars>>

NextParse == ParseTitle

SpecParse == InitParse /\ [][NextParse]_vars

(***************************************************************************)
(* Fragments: parse_tribute_schedule on pages of two titles whose blocks   *)
(* hold date labels, labels of no date and other text, read in a year next *)
(* to a leap year and in a year that is not.                               *)
(***************************************************************************)
MaxFrags == 2

FragRefDates == {Today0, <<2026, 1, 10>>}

FragPool ==
    {Label("Jan", 17), Label("Dec", 31), Label("Feb", 29), Label("Feb", 30),
     Label("Xyz", 5), NoLabel}

FirstBlocks == UNION {[1..n -> FragPool] : n \in 0..MaxFrags}
SecondBlocks == {<<>>, <<Label("Jan", 18)>>, <<Label("Feb", 29), Label("Jan", 18)>>}

FragPages ==
    {<<Media(TRUE, T_Ab), Hr, Ticket(f), Media(TRUE, t), Ticket(g)>> :
        f \in FirstBlocks, t \in {T_Cd, T_a_b}, g \in SecondBlocks}

InitFrag ==
    /\ today \in FragRefDates
    /\ html \in FragPages
    /\ hpos = 1
    /\ movie_spans = <<>>
    /\ IdleYear /\ IdleSched /\ IdleFetch /\ IdleCache /\ IdleView

SpecFrag == InitFrag /\ [][NextParse]_vars

(***************************************************************************)
(* One schedule: build_schedule on a mapping the parser can return.        *)
(***************************************************************************)
MaxSpans == 2

MovieTitles == {T_Ab, T_a_b, T_Cd, T_e1}
DatePool == {<<2024, 12, 26>>, <<2024, 12, 27>>, <<2025, 1, 11>>, <<2025, 1, 12>>}
Horizons == {1, 2}

\* a span as parse_tribute_schedule stores it: the key is the normalized title
SpanInfos ==
    {[norm |-> normalize_title(t), display_title |-> t, dates |-> ds] :
        t \in MovieTitles, ds \in SUBSET DatePool}

SpanMappings ==
    {m \in UNION {[1..n -> SpanInfos] : n \in 0..MaxSpans} :
        \A i, j \in 1..Len(m) : i # j => m[i].norm # m[j].norm}

InitSched ==
    /\ today = Today0
    /\ days_ahead \in Horizons
    /\ spans \in SpanMappings
    /\ result = None
    /\ IdleYear /\ IdleParse /\ IdleFetch /\ IdleCache /\ IdleView

BuildSchedule ==
    /\ result = None
    /\ result' = Some(build_schedule(days_ahead, spans, today))
    /\ UNCHANGED <<today, days_ahead, spans, yearVars, parseVars, fetchVars, cacheVars, viewVars>>

NextSched == BuildSchedule

SpecSched == InitSched /\ [][NextSched]_vars

(***************************************************************************)
(* The query served by one request at a time: api_showtimes calls that do  *)
(* not overlap, against a site whose answers vary, while time passes and   *)
(* /api/debug_raw is requested beside them.                                *)
(***************************************************************************)
SiteOutcomes ==
    {o \in Outcomes : o.kind = "exc" \/ (o.url = TRIBUTE_THEATRE_URL /\ Val(o.text).len # 0)}

\* what fetch_tribute_html can return against these answers
FetchResults == {fetch_tribute_html(os) : os \in [1..FETCH_ATTEMPTS -> SiteOutcomes]}

Times == {0, 1, 180, 181, 360}
DaysArgs == {NoArg, IntArg(1)}

InitCache ==
    /\ today = Today0
    /\ IdleCache
    /\ IdleYear /\ IdleParse /\ IdleSched /\ IdleFetch /\ IdleView

NextCache ==
    \/ Tick(Times)
    \/ ApiDebugRaw(FetchResults)
    \/ ApiStart(1, DaysArgs)
    \/ GcsNow(1)
    \/ GcsCheck(1)
    \/ GcsHit(1)
    \/ GcsFetch(1, FetchResults)
    \/ StoreFetchedAt(1)
    \/ StoreError(1)
    \/ StoreStatus(1)
    \/ StoreUrl(1)
    \/ StoreLen(1)
    \/ StoreNoSpans(1)
    \/ StoreSpans(1)
    \/ ApiRespond(1)

SpecCache == InitCache /\ [][NextCache]_vars

(***************************************************************************)
(* The query with any days parameter, one request at a time, against every *)
(* answer the site can give, a page of past show dates among them.         *)
(***************************************************************************)
PastPage == <<Media(TRUE, T_e1), Hr, Ticket(<<Label("Dec", 26), Label("Dec", 27), Label("Jan", 10)>>)>>

ApiOutcomes ==
    Outcomes \cup {Response(HTTP_OK, TRIBUTE_THEATRE_URL, [len |-> MIN_HTML_LEN, page |-> PastPage]),
                   Response(404, TRIBUTE_THEATRE_URL, [len |-> 0, page |-> EmptyPage])}
ApiAnswers == [1..FETCH_ATTEMPTS -> ApiOutcomes]
ApiResults == {fetch_tribute_html(os) : os \in ApiAnswers}

ApiArgs == {NoArg, TextArg} \cup {IntArg(n) : n \in {-3, 0, 1, 2, 14, 365, 366}}

NextApi ==
    \/ ApiStart(1, ApiArgs)
    \/ GcsNow(1)
    \/ GcsCheck(1)
    \/ GcsHit(1)
    \/ GcsFetch(1, ApiResults)
    \/ StoreFetchedAt(1)
    \/ StoreError(1)
    \/ StoreStatus(1)
    \/ StoreUrl(1)
    \/ StoreLen(1)
    \/ StoreNoSpans(1)
    \/ StoreSpans(1)
    \/ ApiRespond(1)

SpecApi == InitCache /\ [][NextApi]_vars

(***************************************************************************)
(* The query served by concurrent request threads (app.run serves each     *)
(* request on its own thread).                                             *)
(***************************************************************************)
ConcResults ==
    {r \in FetchResults :
        \/ r.html # None /\ Val(r.html).page = OneMoviePage
        \/ r.html = None /\ r.status_code = None}
ConcTimes == {0, 180}
ConcArgs == {NoArg}

NextConc ==
    \/ Tick(ConcTimes)
    \/ \E t \in Threads :
          \/ ApiStart(t, ConcArgs)
          \/ GcsNow(t)
          \/ GcsCheck(t)
          \/ GcsHit(t)
          \/ GcsFetch(t, ConcResults)
          \/ StoreFetchedAt(t)
          \/ StoreError(t)
          \/ StoreStatus(t)
          \/ StoreUrl(t)
          \/ StoreLen(t)
          \/ StoreNoSpans(t)
          \/ StoreSpans(t)
          \/ ApiRespond(t)

SpecConc == InitCache /\ [][NextConc]_vars

(***************************************************************************)
(* The page: renderMovies on the movies of an answer, in a browser whose   *)
(* zone keeps one time all year or puts its clocks forward on 2025-03-09.  *)
(***************************************************************************)
MaxMovies == 2

ViewToday == <<2025, 3, 7>>
MountainTime == Some([from |-> <<2025, 3, 9>>, until |-> <<2025, 11, 2>>])
ViewZones == {None, MountainTime}

\* the show dates of the movies of the answer
ViewRuns ==
    { {<<2025, 3, 6>>, <<2025, 3, 7>>, <<2025, 3, 8>>, <<2025, 3, 9>>},
      {<<2025, 3, 7>>},
      {<<2025, 3, 7>>, <<2025, 3, 8>>, <<2025, 3, 10>>, <<2025, 3, 12>>},
      {<<2025, 3, 8>>, <<2025, 3, 13>>},
      {<<2025, 3, 8>>, <<2025, 3, 9>>, <<2025, 3, 10>>, <<2025, 3, 13>>},
      {<<2025, 3, 21>>, <<2025, 3, 22>>},
      {<<2025, 3, 22>>},
      {<<2025, 3, 22>>, <<2025, 3, 23>>, <<2025, 3, 24>>, <<2025, 3, 25>>} }

\* the entries build_schedule gives for them on ViewToday
ViewMovies ==
    {build_schedule(MAX_DAYS, <<[norm |-> normalize_title(t), display_title |-> t, dates |-> ds]>>,
                    ViewToday)[1] : t \in {T_Ab, T_aB, T_Cd}, ds \in ViewRuns}

InitView ==
    /\ today = Today0
    /\ IdleYear /\ IdleParse /\ IdleSched /\ IdleFetch /\ IdleCache
    /\ cachedMovies \in UNION {[1..n -> ViewMovies] : n \in 0..MaxMovies}
    /\ hiddenSet \in {{}, {normalize_title(T_Cd)}}
    /\ sortMode \in {"start", "run"}
    /\ jsNow \in {[date |-> ViewToday, zone |-> z] : z \in ViewZones}
    /\ grids = EmptyGrids

NextView == RenderMovies

SpecView == InitView /\ [][NextView]_vars

(***************************************************************************)
(* Properties                                                              *)
(***************************************************************************)

\* ---- C4 ----------------------------------------------------------------
C4_Years == {today[1] - 1, today[1], today[1] + 1}
C4_Valid(y) == ValidDate(y, month, day_num)
C4_Offset(y) == toordinal(<<y, month, day_num>>) - toordinal(today)
C4_Tier(y) == IF C4_Offset(y) >= -60 /\ C4_Offset(y) <= 300 THEN 0 ELSE 1
C4_NotWorse(a, b) ==
    \/ C4_Tier(a) < C4_Tier(b)
    \/ C4_Tier(a) = C4_Tier(b) /\ Abs(C4_Offset(a)) <= Abs(C4_Offset(b))

\* C4: for a month/day that is a valid date in one of the years reference-1,
\* reference, reference+1, _guess_year returns the year of the valid candidate
\* whose pair (0 if its day offset is within -60..+300 else 1, absolute offset)
\* is smallest; so the resolved date is inside the window whenever a candidate
\* is; 2024-12-20 with Jan 3 gives 2025 and 2024-01-05 with Jan 10 gives 2024.
C4_GuessYearMinimisesScore ==
    (year # None /\ \E y \in C4_Years : C4_Valid(y)) =>
        /\ Val(year) \in C4_Years
        /\ C4_Valid(Val(year))
        /\ \A y \in C4_Years : C4_Valid(y) => C4_NotWorse(Val(year), y)
        /\ (\E y \in C4_Years : C4_Valid(y) /\ C4_Tier(y) = 0) => C4_Tier(Val(year)) = 0
        /\ (today = <<2024, 12, 20>> /\ month = 1 /\ day_num = 3) => Val(year) = 2025
        /\ (today = <<2024, 1, 5>> /\ month = 1 /\ day_num = 10) => Val(year) = 2024

\* the candidate of next year, inside the window, is returned although the
\* candidate of this year is closer to the reference date
C4_Witness ==
    /\ year = Some(today[1] + 1)
    /\ C4_Valid(today[1])
    /\ C4_Tier(today[1]) = 1
    /\ C4_Tier(today[1] + 1) = 0
    /\ Abs(C4_Offset(today[1])) < Abs(C4_Offset(today[1] + 1))

\* ---- C10 ---------------------------------------------------------------
C10_Failed(o) ==
    \/ o.kind = "exc"
    \/ o.status_code # 200
    \/ Val(o.text).len < 800

\* C10: fetch_tribute_html ends after at most 3 attempts; it returns the body
\* and no error at the first attempt with status 200 and a body of at least
\* 800 characters, and attempts nothing after it; it returns no body and a
\* non-empty error exactly when all 3 attempts failed (an exception, a non-200
\* status, or a 200 body shorter than 800 characters).
C10_FetchEndsWithinThreeAttempts ==
    LET n == Len(responses)
        allFailed == \A i \in 1..n : C10_Failed(responses[i])
    IN  /\ n <= 3
        /\ fetch.attempt = n
        /\ \A i \in 1..(n - 1) : C10_Failed(responses[i])
        /\ fetch.ret = None <=> (n < 3 /\ allFailed)
        /\ fetch.ret # None =>
              LET r == Val(fetch.ret)
              IN  /\ ~allFailed =>
                        /\ r.html = responses[n].text
                        /\ r.error = None
                        /\ r.status_code = Some(200)
                  /\ (r.html = None /\ r.error # None /\ Val(r.error)[1] # "")
                        <=> (n = 3 /\ allFailed)
                  /\ r.html = None <=> r.error # None

\* a body of exactly 800 characters is returned at the second attempt, after
\* a 200 answer that was too short
C10_Witness ==
    /\ Len(responses) = 2
    /\ responses[1].kind = "resp" /\ responses[1].status_code = 200
    /\ fetch.ret # None
    /\ Val(fetch.ret).error = None
    /\ Val(Val(fetch.ret).html).len = 800

\* ---- C1 ----------------------------------------------------------------
C1_InRange(k) ==
    {d \in spans[k].dates :
        /\ toordinal(today) - 14 <= toordinal(d)
        /\ toordinal(d) <= toordinal(today) + days_ahead}
C1_Min(ds) == CHOOSE d \in ds : \A e \in ds : toordinal(d) <= toordinal(e)
C1_Max(ds) == CHOOSE d \in ds : \A e \in ds : toordinal(d) >= toordinal(e)
C1_EntriesOf(k) ==
    {i \in 1..Len(Val(result)) : Val(result)[i].title = spans[k].display_title}

\* C1: build_schedule outputs exactly one entry for each span with a date d,
\* today-14 <= d <= today+days_ahead, and none for any other span; first_date
\* and last_date are the least and greatest in-range dates, run_length_days is
\* the number of distinct in-range dates and days_until_start is first_date
\* minus today in days.
C1_OneEntryPerSpanInRange ==
    result # None =>
        /\ Len(Val(result)) = Cardinality({k \in 1..Len(spans) : C1_InRange(k) # {}})
        /\ \A k \in 1..Len(spans) :
              IF C1_InRange(k) = {} THEN C1_EntriesOf(k) = {}
              ELSE /\ Cardinality(C1_EntriesOf(k)) = 1
                   /\ \A i \in C1_EntriesOf(k) :
                         LET e == Val(result)[i]
                         IN  /\ e.first_date = isoformat(C1_Min(C1_InRange(k)))
                             /\ e.last_date = isoformat(C1_Max(C1_InRange(k)))
                             /\ e.run_length_days = Cardinality(C1_InRange(k))
                             /\ e.days_until_start =
                                   toordinal(C1_Min(C1_InRange(k))) - toordinal(today)

\* one span is dropped and the other keeps the two dates that bound the range:
\* it started 14 days ago, ends at the horizon and its run length is 2
C1_Witness ==
    /\ result # None
    /\ Len(spans) = 2
    /\ Len(Val(result)) = 1
    /\ Val(result)[1].days_until_start = -14
    /\ Val(result)[1].run_length_days = 2
    /\ Val(result)[1].last_date = isoformat(<<2025, 1, 10 + days_ahead>>)
    /\ \E k \in 1..2 : spans[k].dates # {} /\ C1_InRange(k) = {}

\* ---- C2 ----------------------------------------------------------------
C2_Before(x, y) ==
    \/ x.days_until_start < y.days_until_start
    \/ /\ x.days_until_start = y.days_until_start
       /\ x.run_length_days < y.run_length_days
    \/ /\ x.days_until_start = y.days_until_start
       /\ x.run_length_days = y.run_length_days
       /\ StrLess(x.title, y.title)

\* C2: the list build_schedule returns is in ascending order of
\* days_until_start, then run_length_days, then title; no two entries share
\* all three; sorting it again by the same key leaves it unchanged.
C2_ResultSortedTotally ==
    result # None =>
        /\ \A i, j \in 1..Len(Val(result)) :
              i < j => C2_Before(Val(result)[i], Val(result)[j])
        /\ SortByKey(Val(result)) = Val(result)

\* two entries that tie on the start and the run length, ordered by title
\* against the order of their keys and of the mapping ("Cd" before "a-b")
C2_Witness ==
    /\ result # None
    /\ Len(Val(result)) = 2
    /\ Val(result)[1].days_until_start = Val(result)[2].days_until_start
    /\ Val(result)[1].run_length_days = Val(result)[2].run_length_days
    /\ Val(result)[1].title = T_Cd
    /\ Val(result)[2].title = T_a_b
    /\ spans[1].display_title = T_a_b

\* ---- C3 ----------------------------------------------------------------
C3_Title(k) == html[Headers(html)[k]].title
C3_Key(k) == normalize_title(C3_Title(k))
C3_Block(k) == FindTicket(html, Headers(html)[k])
C3_Dates(k) ==
    IF C3_Block(k) = None THEN {} ELSE BlockDates(today, html[Val(C3_Block(k))].b)
\* the occurrences processed so far that carry a canonical key
C3_Seen == {k \in 1..(hpos - 1) : ~SkippedTitle(C3_Title(k))}
\* those of them for which a showtimes block was found
C3_WithBlock == {k \in C3_Seen : C3_Block(k) # None}
C3_SpansOf(key) == {s \in 1..Len(movie_spans) : movie_spans[s].norm = key}

\* every span is that of occurrences among occ: no key has two spans, the
\* dates are those of its occurrences unioned, display_title is a longest of
\* their titles
C3_SpansAre(occ) ==
    \A s \in 1..Len(movie_spans) :
        LET same == {k \in occ : C3_Key(k) = movie_spans[s].norm}
        IN  /\ C3_SpansOf(movie_spans[s].norm) = {s}
            /\ same # {}
            /\ movie_spans[s].dates = UNION {C3_Dates(k) : k \in same}
            /\ \E k \in same : C3_Title(k) = movie_spans[s].display_title
            /\ \A k \in same : Len(C3_Title(k)) <= Len(movie_spans[s].display_title)

\* display_title is the title of the earliest longest occurrence among occ
C3_EarliestLongest(occ) ==
    \A s \in 1..Len(movie_spans) :
        LET same == {k \in occ : C3_Key(k) = movie_spans[s].norm}
        IN  \E k \in same :
               /\ C3_Title(k) = movie_spans[s].display_title
               /\ \A j \in same : j < k => Len(C3_Title(j)) < Len(C3_Title(k))

\* C3 as stated: one span per canonical key, the dates of all its occurrences
\* unioned, display_title the longest title among all occurrences seen with
\* the key, those with no showtimes block included.
C3_Original == C3_SpansAre(C3_Seen)

C3_Grows ==
    \A s \in 1..Len(movie_spans) :
        /\ s <= Len(movie_spans')
        /\ movie_spans'[s].norm = movie_spans[s].norm
        /\ movie_spans[s].dates \subseteq movie_spans'[s].dates

\* C3 (amended): there is exactly one span per canonical key that has an
\* occurrence with a showtimes block; its date set is the union of the dates
\* parsed for those occurrences and never shrinks while occurrences are
\* processed; display_title is the longest title among those occurrences (the
\* earliest of them when several are longest).  An occurrence with no
\* showtimes block creates no span and does not change display_title.
C3_OneSpanPerKeyWithBlock ==
    /\ [](/\ \A k \in C3_WithBlock : C3_SpansOf(C3_Key(k)) # {}
          /\ C3_SpansAre(C3_WithBlock)
          /\ C3_EarliestLongest(C3_WithBlock))
    /\ [][C3_Grows]_vars

\* a key met twice, each time with a block: a short title, then a longer one
\* whose block has other dates; the mapping holds one span with both dates
\* and the longer title
C3_Witness ==
    /\ hpos = 3
    /\ Len(movie_spans) = 1
    /\ C3_WithBlock = {1, 2}
    /\ C3_Title(1) = T_Ab
    /\ C3_Title(2) = T_a_b
    /\ movie_spans[1].display_title = T_a_b
    /\ Cardinality(movie_spans[1].dates) = 2
    /\ C3_Dates(1) # C3_Dates(2)

\* ---- C5 ----------------------------------------------------------------
\* thread 1 has returned from get_cached_spans (its locals are still there)
C5_Returned == frame[1].pc = "l359"
C5_Fetched == frame[1].got # None
C5_Age == Val(frame[1].now) - Val(frame[1].fetched_at)

\* C5: in calls that do not overlap, get_cached_spans fetches exactly when no
\* spans mapping is cached or at least 180 s have passed since the cached
\* timestamp; a call less than 180 s after a successful fetch returns the
\* cached mapping, no error, and does not fetch, also when the mapping is empty.
C5_FetchOnlyWhenMissingOrExpired ==
    C5_Returned =>
        LET held == Val(frame[1].seen).spans
        IN  /\ C5_Fetched <=> (held = None \/ frame[1].fetched_at = None \/ C5_Age >= 180)
            /\ (held # None /\ frame[1].fetched_at # None /\ C5_Age < 180) =>
                  /\ ~C5_Fetched
                  /\ Val(frame[1].out).spans = held
                  /\ Val(frame[1].out).err = None
                  /\ cache.spans = held
                  /\ cache.fetched_at = frame[1].fetched_at

\* an empty mapping, cached 179 s ago, is returned without a fetch
C5_Witness ==
    /\ C5_Returned
    /\ ~C5_Fetched
    /\ C5_Age = 179
    /\ Val(frame[1].out).spans = Some(<<>>)
    /\ Val(frame[1].out).err = None

\* ---- C8 ----------------------------------------------------------------
\* C8: Failed is not sticky: after an attempt that failed and left no spans,
\* the next call made once the TTL has elapsed fetches again, and if that fetch
\* succeeds the cache holds the parsed spans with the call's timestamp and the
\* call returns them with no error.
C8_FailedIsNotSticky ==
    (/\ C5_Returned
     /\ Val(frame[1].seen).spans = None
     /\ Val(frame[1].seen).fetch_error # None
     /\ frame[1].fetched_at # None
     /\ C5_Age >= 180) =>
        /\ C5_Fetched
        /\ Val(frame[1].got).html # None =>
              LET parsed == parse_tribute_schedule(Val(Val(frame[1].got).html).page, today)
              IN  /\ cache.spans = Some(parsed)
                  /\ cache.fetched_at = frame[1].now
                  /\ cache.fetch_error = None
                  /\ Val(frame[1].out).spans = Some(parsed)
                  /\ Val(frame[1].out).err = None

\* 180 s after a failed attempt a fetch succeeded and the spans were returned
C8_Witness ==
    /\ C5_Returned
    /\ Val(frame[1].seen).spans = None
    /\ Val(frame[1].seen).fetch_error # None
    /\ C5_Age = 180
    /\ C5_Fetched
    /\ Val(frame[1].out).err = None
    /\ cache.spans # None

\* ---- C7 ----------------------------------------------------------------
\* the refresh attempt of thread 1 failed
C7_Failed == C5_Returned /\ C5_Fetched /\ Val(frame[1].got).html = None
\* thread 1 sends its response in this step
C7_Responds == frame[1].pc = "l359" /\ frame'[1].pc = "done"

\* C7 as stated: when a refresh fails while spans of an earlier successful
\* fetch are held, the query returns the schedule built from those spans; an
\* error is reported only when no earlier spans are available.
C7_Original ==
    [][(C7_Failed /\ C7_Responds /\ Val(frame[1].seen).spans # None) =>
          /\ Val(frame'[1].resp).error = None
          /\ Val(frame'[1].resp).code = 200
          /\ Val(frame'[1].resp).movies =
                build_schedule(frame[1].days, Val(Val(frame[1].seen).spans), today)]_vars

\* C7 (amended): when a refresh attempt fails, the spans held from an earlier
\* successful fetch are dropped and the query reports the fetch error (status
\* 503, no movies, the last-fetch diagnostics) whether or not such spans were
\* held.  No fetch failure leaves the process unable to serve later calls: the
\* call after a failure fetches again and returns the parsed spans, no error,
\* when that fetch succeeds.
C7_FailureDropsSpansAndReportsError ==
    /\ [](/\ C7_Failed =>
                /\ cache.spans = None
                /\ Val(frame[1].out).spans = None
                /\ Val(frame[1].out).err = Val(frame[1].got).error
                /\ Val(frame[1].out).err # None
          /\ (C5_Returned /\ Val(frame[1].seen).spans = None) =>
                /\ C5_Fetched
                /\ Val(frame[1].got).html # None =>
                      /\ Val(frame[1].out).err = None
                      /\ Val(frame[1].out).spans = cache.spans
                      /\ cache.spans # None)
    /\ [][(C7_Failed /\ C7_Responds) =>
             /\ Val(frame'[1].resp).code = 503
             /\ Val(frame'[1].resp).movies = <<>>
             /\ Val(frame'[1].resp).error = Val(frame[1].got).error
             /\ Val(Val(frame'[1].resp).debug).last_status = Val(frame[1].got).status_code
             /\ Val(Val(frame'[1].resp).debug).last_html_len = None]_vars

\* a refresh failed while stale spans with a title were held
C7_Witness ==
    /\ C7_Failed
    /\ Val(frame[1].seen).spans # None
    /\ Len(Val(Val(frame[1].seen).spans)) > 0
    /\ C5_Age >= 180
    /\ cache.spans = None

\* ---- C9 ----------------------------------------------------------------
\* get_cached_spans has returned an empty mapping and no error to thread 1
C9_ParseEmpty ==
    /\ C5_Returned
    /\ Val(frame[1].out).err = None
    /\ Val(frame[1].out).spans = Some(<<>>)

\* C9 as stated: when the fetch succeeds and the parser recognises no title,
\* the query returns a result that is no error: no error field, success
\* status, an empty movie list.
C9_Original ==
    [][(C9_ParseEmpty /\ C7_Responds) =>
          /\ Val(frame'[1].resp).error = None
          /\ Val(frame'[1].resp).code = 200
          /\ Val(frame'[1].resp).movies = <<>>]_vars

\* C9 (amended): when the fetch succeeds and the parser recognises no title,
\* get_cached_spans returns the empty mapping with no error, and the query
\* returns an error result: status 503, the error "No spans parsed", an empty
\* movie list and the last-fetch diagnostics.  It differs from the result of a
\* fetch failure in the error string and in last_html_len, which is set after
\* an empty parse and null after a fetch failure.
C9_ParseEmptyIsReportedAsError ==
    /\ [](/\ (/\ C5_Returned /\ C5_Fetched
              /\ Val(frame[1].got).html # None
              /\ parse_tribute_schedule(Val(Val(frame[1].got).html).page, today) = <<>>)
             => C9_ParseEmpty)
    /\ [][/\ (C9_ParseEmpty /\ C7_Responds) =>
                /\ Val(frame'[1].resp).code = 503
                /\ Val(frame'[1].resp).movies = <<>>
                /\ Val(frame'[1].resp).error = Some(<<"No spans parsed", 0>>)
                /\ Val(Val(frame'[1].resp).debug).last_html_len # None
          /\ (C7_Failed /\ C7_Responds) =>
                /\ Val(frame'[1].resp).code = 503
                /\ Val(frame'[1].resp).error # Some(<<"No spans parsed", 0>>)
                /\ Val(Val(frame'[1].resp).debug).last_html_len = None]_vars

\* the response to a fetch that succeeded with a page of no title
C9_Witness ==
    /\ frame[1].pc = "done"
    /\ Val(frame[1].resp).code = 503
    /\ Val(frame[1].resp).error = Some(<<"No spans parsed", 0>>)
    /\ cache.spans = Some(<<>>)
    /\ cache.fetch_error = None
    /\ cache.html_len # None

\* ---- C6 ----------------------------------------------------------------
\* thread t holds the result of a fetch that failed
C6_FailedAttempt(t) == frame[t].got # None /\ Val(frame[t].got).html = None
\* spans stored by a successful fetch with timestamp stored.at are still fresh
C6_Fresh == stored # None /\ clock < Val(stored).at + 180
\* thread t returns from get_cached_spans in this step, from a call it began
\* while the spans of a successful fetch were fresh
C6_ReturnsFromFreshCall(t) ==
    /\ frame[t].pc # "l359"
    /\ frame'[t].pc = "l359"
    /\ Val(frame[t].seen).stored # None
    /\ Val(frame[t].now) < Val(Val(frame[t].seen).stored).at + 180

\* C6 as stated: under every interleaving of get_cached_spans calls, once a
\* successful fetch has stored spans with timestamp t, no failed attempt clears
\* or replaces them before t + TTL, and every call that starts before t + TTL
\* returns spans and no error.
C6_Original ==
    [][/\ C6_Fresh =>
            \A t \in Threads :
                (C6_FailedAttempt(t) /\ frame'[t] # frame[t]) => cache'.spans = cache.spans
       /\ \A t \in Threads :
            C6_ReturnsFromFreshCall(t) =>
                /\ Val(frame'[t].out).err = None
                /\ Val(frame'[t].out).spans # None]_vars

\* spans stored by a successful fetch less than 180 s ago are gone from _cache
C6_Witness ==
    /\ C6_Fresh
    /\ cache.spans = None
    /\ \E t \in Threads : frame[t].pc = "l359" /\ C6_FailedAttempt(t)

\* ---- C11 ---------------------------------------------------------------
\* thread t is inside get_cached_spans with a fetch of its own performed
C11_Refreshing(t) ==
    /\ frame[t].pc \in {"l299", "l300", "l301", "l302", "l303", "l306", "l309"}
    /\ frame[t].got # None

\* C11 as stated: requests that call get_cached_spans concurrently while the
\* cache is empty or stale perform one outbound fetch between them: refreshes
\* are serialised, so no two calls are in a refresh, each with its own fetch
\* performed, at the same time.
C11_Original ==
    \A t, u \in Threads : (C11_Refreshing(t) /\ C11_Refreshing(u)) => t = u

\* two calls that began on the same empty cache at the same time have each
\* performed a fetch
C11_Witness ==
    /\ C11_Refreshing(1)
    /\ C11_Refreshing(2)
    /\ Val(frame[1].seen).spans = None
    /\ Val(frame[2].seen).spans = None
    /\ frame[1].now = frame[2].now
    /\ frame[1].fetched_at = None
    /\ frame[2].fetched_at = None

\* ---- C12 ---------------------------------------------------------------
\* thread t returns from get_cached_spans by the cache-hit path in this step
C12_HitReturns(t) == frame[t].pc = "l296" /\ frame'[t].pc = "l359"

\* C12 as stated: a request that takes the cache-hit path returns spans that
\* were produced by the fetch whose timestamp passed its freshness test.
C12_Original ==
    [][\A t \in Threads :
          C12_HitReturns(t) =>
              /\ stored # None
              /\ Val(stored).at = Val(frame[t].fetched_at)
              /\ Val(frame'[t].out).spans = Some(Val(stored).spans)]_vars

\* a call has passed the freshness test with the timestamp of a later attempt
\* while _cache holds the spans of an earlier fetch, which it is about to return
C12_Witness ==
    \E t \in Threads :
        /\ frame[t].pc = "l296"
        /\ stored # None
        /\ cache.spans = Some(Val(stored).spans)
        /\ Val(stored).at < Val(frame[t].fetched_at)

\* ---- C13 ---------------------------------------------------------------
\* the position of the k-th header, and whether it is the heading of a title
C13_Pos(k) == Headers(html)[k]
C13_IsTitle(j) == ~SkippedTitle(C3_Title(j))
\* a title heading lies between the k-th header and the block attributed to it
C13_Crossed(k, j) ==
    /\ C13_IsTitle(j)
    /\ C13_Pos(k) < C13_Pos(j)
    /\ C13_Pos(j) < Val(C3_Block(k))

\* C13 as stated: the showtimes block attributed to a processed title lies
\* after the heading of the title and before the next title heading in
\* document order.
C13_Original ==
    \A k \in C3_WithBlock :
        /\ C13_Pos(k) < Val(C3_Block(k))
        /\ \A j \in 1..Len(Headers(html)) : ~C13_Crossed(k, j)

\* a title has received the dates of the block of another movie, whose heading
\* lies between its own heading and that block
C13_Witness ==
    \E k \in C3_WithBlock : \E j \in 1..Len(Headers(html)) :
        /\ C13_Crossed(k, j)
        /\ C3_Key(j) # C3_Key(k)
        /\ C3_Dates(k) # {}
        /\ \E s \in C3_SpansOf(C3_Key(k)) : C3_Dates(k) \subseteq movie_spans[s].dates

\* ---- C14 ---------------------------------------------------------------
C14_Sections == {"now", "soon", "later"}
\* the start bucket and the section of it
C14_Bucket(m) ==
    IF m.days_until_start <= 0 THEN "NOW"
    ELSE IF 1 <= m.days_until_start /\ m.days_until_start <= 14 THEN "SOON"
    ELSE "LATER"
C14_SectionOf(tag) == IF tag = "NOW" THEN "now" ELSE IF tag = "SOON" THEN "soon" ELSE "later"
\* the days from the browser's today to last_date
C14_DaysLeft(m) == toordinal(ParseIso(m.last_date)) - toordinal(jsNow.date)
\* the leaving-urgency
C14_Urgency(m) ==
    IF C14_DaysLeft(m) <= 1 THEN "red"
    ELSE IF m.run_length_days <= 3 \/ C14_DaysLeft(m) <= 5 THEN "yellow"
    ELSE "none"
\* the urgency a card shows
C14_Shown(card) ==
    IF "card-urgent-red" \in card.classes THEN "red"
    ELSE IF "card-urgent-yellow" \in card.classes THEN "yellow"
    ELSE "none"
C14_AllCards == UNION {{grids[sec][k] : k \in 1..Len(grids[sec])} : sec \in C14_Sections}

\* C14 as stated: every rendered entry carries the tag of its start bucket
\* (NOW if days_until_start <= 0, SOON if 1..14, LATER otherwise) and is
\* rendered in the section of that tag; its leaving-urgency is red if the days
\* from today to last_date are <= 1, otherwise yellow if run_length_days <= 3
\* or those days are <= 5, otherwise none; entries that differ in bucket or in
\* urgency differ in what their cards show.
C14_Original ==
    /\ \A sec \in C14_Sections : \A k \in 1..Len(grids[sec]) :
          LET card == grids[sec][k]
          IN  /\ card.tag = C14_Bucket(card.movie)
              /\ C14_SectionOf(card.tag) = sec
              /\ C14_Shown(card) = C14_Urgency(card.movie)
    /\ \A c, d \in C14_AllCards :
          (C14_Bucket(c.movie) # C14_Bucket(d.movie) \/ C14_Urgency(c.movie) # C14_Urgency(d.movie))
             => <<c.tag, c.classes>> # <<d.tag, d.classes>>

\* a movie that plays on four days and leaves in two days is shown as red
C14_Witness ==
    \E card \in C14_AllCards :
        /\ C14_DaysLeft(card.movie) = 2
        /\ card.movie.run_length_days = 4
        /\ C14_Shown(card) = "red"
        /\ card.urgency_label = "Final chance"

\* ---- C15 ---------------------------------------------------------------
C15_Years == {today[1] - 1, today[1], today[1] + 1}
\* the fragment has the shape of a date label and names a month
C15_Labelled(frag) == frag.shape /\ frag.mon \in DOMAIN MONTHS
\* the dates the label can mean: valid in one of the three years
C15_Meant(frag) ==
    {<<y, MONTHS[frag.mon], frag.day>> : y \in {z \in C15_Years : ValidDate(z, MONTHS[frag.mon], frag.day)}}
\* a fragment that is no date label, names no month or means no date
C15_Skipped(frag) == ~C15_Labelled(frag) \/ C15_Meant(frag) = {}
C15_Kept(frag) == ~C15_Skipped(frag)
\* the page without the skipped fragments
C15_Without ==
    [i \in 1..Len(html) |-> [html[i] EXCEPT !.b = SelectSeq(@, C15_Kept)]]
C15_Fragments(k) == html[Val(C3_Block(k))].b

\* C15: a fragment that has not the date-label shape, names an unknown month
\* or resolves to no valid date (the year then falls back to the reference
\* year) adds no date, changes no collected date or span, and does not stop
\* the parse: the spans are those of the page without such fragments, every
\* other fragment of a processed block has added one date, every processed
\* title with a block has its span, and no span or date is ever lost.
C15_BadFragmentsAreSkipped ==
    /\ [](/\ movie_spans = ParsePrefix(C15_Without, today, hpos - 1)
          /\ \A k \in C3_WithBlock :
                /\ C3_SpansOf(C3_Key(k)) # {}
                /\ \A n \in 1..Len(C15_Fragments(k)) :
                      LET frag == C15_Fragments(k)[n]
                      IN  /\ C15_Kept(frag) =>
                                \E d \in C15_Meant(frag) :
                                    \A s \in C3_SpansOf(C3_Key(k)) : d \in movie_spans[s].dates
                          /\ (C15_Labelled(frag) /\ C15_Meant(frag) = {}) =>
                                _guess_year(today, MONTHS[frag.mon], frag.day) = today[1]
          /\ \A s \in 1..Len(movie_spans) :
                movie_spans[s].dates \subseteq
                    UNION {UNION {C15_Meant(C15_Fragments(k)[n]) :
                                      n \in {x \in 1..Len(C15_Fragments(k)) :
                                                C15_Kept(C15_Fragments(k)[x])}} :
                           k \in {x \in C3_WithBlock : C3_Key(x) = movie_spans[s].norm}})
    /\ [][C3_Grows]_vars

\* read in 2026, a block of "Feb 29" followed by "Jan 17" has given its title
\* the one date 2026-01-17, and the title after it has its span
C15_Witness ==
    /\ today = <<2026, 1, 10>>
    /\ hpos = 3
    /\ html[3].b = <<Label("Feb", 29), Label("Jan", 17)>>
    /\ Len(movie_spans) = 2
    /\ movie_spans[1].dates = {<<2026, 1, 17>>}
    /\ movie_spans[2].dates = {<<2026, 1, 18>>}

\* ---- C16 ---------------------------------------------------------------
\* thread 1 is not between the first and the last write of a refresh
C16_Settled == frame[1].pc \in {"idle", "done", "l292", "l295", "l296", "l298", "l359"}
\* thread 1 is on the cache-hit path or before the test that leads to it
C16_BeforeFetch == frame[1].pc \in {"l292", "l295", "l296"}

\* C16: between non-overlapping get_cached_spans calls, spans is non-null
\* exactly when the most recent refresh attempt succeeded, and then fetch_error
\* is null, fetch_status is 200, html_len >= 800 and fetched_at is set; when
\* the most recent attempt failed, spans is null, fetch_error is non-null and
\* html_len is null.  A call that takes the cache-hit path changes no field.
C16_CacheDescribesLastAttempt ==
    /\ [](C16_Settled =>
            /\ cache.fetched_at = None => cache = EmptyCache
            /\ cache.spans # None =>
                  /\ cache.fetch_error = None
                  /\ cache.fetch_status = Some(200)
                  /\ cache.html_len # None
                  /\ Val(cache.html_len) >= 800
                  /\ cache.fetched_at # None
            /\ (cache.spans = None /\ cache.fetched_at # None) =>
                  /\ cache.fetch_error # None
                  /\ cache.html_len = None
            /\ (frame[1].pc = "l359" /\ frame[1].got # None) =>
                  /\ cache.spans # None <=> Val(frame[1].got).html # None
                  /\ cache.fetched_at = frame[1].now)
    /\ [][C16_BeforeFetch => cache' = cache]_vars

\* a call has returned by the cache-hit path from a cache that holds spans
\* with a title, status 200 and the length of the page
C16_Witness ==
    /\ frame[1].pc = "l359"
    /\ frame[1].got = None
    /\ cache.spans # None
    /\ Len(Val(cache.spans)) > 0
    /\ cache.fetch_status = Some(200)
    /\ cache.html_len = Some(800)
    /\ cache.fetch_error = None

\* ---- C17 ---------------------------------------------------------------
\* thread 1 is inside api_showtimes, its days read and clamped
C17_InCall == frame[1].pc \notin {"idle", "done"}
C17_Span(e) == toordinal(ParseIso(e.last_date)) - toordinal(ParseIso(e.first_date))

\* C17: for a days parameter that is missing, a text that is no integer, or
\* any integer, the horizon api_showtimes uses and echoes lies in 1..365 (60
\* when the parameter is missing or no integer, the integer itself when it
\* lies in 1..365), and every entry returned has
\* -14 <= days_until_start <= days_ahead and
\* 1 <= run_length_days <= (last_date - first_date in days) + 1.
C17_HorizonClampedAndEntriesInRange ==
    /\ [](C17_InCall =>
            LET a == Val(frame[1].args)
            IN  /\ frame[1].days \in 1..365
                /\ a.kind \in {"missing", "text"} => frame[1].days = 60
                /\ (a.kind = "int" /\ a.n \in 1..365) => frame[1].days = a.n
                /\ (a.kind = "int" /\ a.n < 1) => frame[1].days = 1
                /\ (a.kind = "int" /\ a.n > 365) => frame[1].days = 365)
    /\ [][C7_Responds =>
            LET answer == Val(frame'[1].resp)
            IN  /\ answer.days_ahead = frame[1].days
                /\ \A k \in 1..Len(answer.movies) :
                      LET e == answer.movies[k]
                      IN  /\ -14 <= e.days_until_start
                          /\ e.days_until_start <= answer.days_ahead
                          /\ 1 <= e.run_length_days
                          /\ e.run_length_days <= C17_Span(e) + 1]_vars

\* a request has been answered with the horizon 1 and the one movie that
\* plays within it, which began 14 days ago
C17_Witness ==
    /\ frame[1].pc = "done"
    /\ Val(frame[1].resp).code = 200
    /\ Val(frame[1].resp).days_ahead = 1
    /\ Len(Val(frame[1].resp).movies) = 1
    /\ Val(frame[1].resp).movies[1].days_until_start = -14
    /\ Val(frame[1].resp).movies[1].run_length_days = 2

\* ---- C18 ---------------------------------------------------------------
\* the error the code words for a failed attempt
C18_ErrorOf(o) ==
    IF o.kind = "exc" THEN <<o.exc, 0>>
    ELSE IF o.status_code # 200 THEN <<"HTTP", o.status_code>>
    ELSE <<"HTML too short (len=)", Val(o.text).len>>
\* the attempts that received an HTTP response
C18_Answered(os) == {i \in 1..3 : os[i].kind = "resp"}
C18_Last(os) == CHOOSE i \in C18_Answered(os) : \A j \in C18_Answered(os) : j <= i

\* C18: when all 3 attempts of fetch_tribute_html fail, the error returned is
\* that of the third attempt, the status code and final URL returned are those
\* of the last attempt that received an HTTP response (null only if none did),
\* and get_cached_spans stores exactly these values as last-fetch diagnostics.
C18_DiagnosticsOfLastAttempts ==
    (/\ frame[1].pc = "l359"
     /\ frame[1].got # None
     /\ Val(frame[1].got).html = None) =>
        LET r == Val(frame[1].got)
        IN  /\ cache.fetch_error = r.error
            /\ cache.fetch_status = r.status_code
            /\ cache.fetch_url = r.final_url
            /\ \A os \in ApiAnswers :
                  fetch_tribute_html(os) = r =>
                      /\ r.error = Some(C18_ErrorOf(os[3]))
                      /\ IF C18_Answered(os) = {}
                         THEN r.status_code = None /\ r.final_url = None
                         ELSE /\ r.status_code = Some(os[C18_Last(os)].status_code)
                              /\ r.final_url = Some(os[C18_Last(os)].url)

\* a fetch answered 404, then 503 from another URL, then by an exception has
\* left the exception as error and the 503 and its URL as status and URL
C18_Witness ==
    /\ frame[1].pc = "l359"
    /\ cache.fetch_error = Some(<<"ConnectionError", 0>>)
    /\ cache.fetch_status = Some(503)
    /\ cache.fetch_url = Some(RedirectedUrl)
    /\ cache.spans = None
    /\ frame[1].got # None
    /\ Val(frame[1].got).error = cache.fetch_error

====
